---- MODULE Spec2Model ----
(***************************************************************************)
(* Model of print_docs.py (doc-gen): the symbol index built from the       *)
(* exported declarations, the redirect resolver, the export index, kind    *)
(* derivation, the site tree and the three linkers.                        *)
(*                                                                         *)
(* Strings are sequences of symbols.  A symbol is a one-character string   *)
(* ("a", " ", "(") or a fixed literal of the program that the code only    *)
(* ever handles as a whole (".mk", ".lean", "<code>", "</a>", ...).        *)
(***************************************************************************)
EXTENDS Integers, Sequences, FiniteSets, TLC

VARIABLES
  pc,          \* position of the run
  objs,        \* lib_data['decls']: the declarations as loaded
  mod_docs,    \* keys of lib_data['mod_docs'], in order: raw file names
  file_map,    \* dict ImportName -> list of declarations
  loc_map,     \* dict symbol name -> ImportName
  redirects,   \* the redirect targets write_redirects wrote, in order
  export_db,   \* dict symbol name -> export entry, built by mk_export_db
  in_decl,     \* argument of kind_of_decl
  in_name,     \* argument decl_name of linkify_core
  in_text,     \* argument text of linkify_core
  in_string,   \* argument of linkify_efmt (f) and of linkify_markdown (string)
  result       \* value returned, or exception raised, by the last call

vars == <<pc, objs, mod_docs, file_map, loc_map, redirects, export_db,
          in_decl, in_name, in_text, in_string, result>>

(***************************************************************************)
(* Generic helpers                                                         *)
(***************************************************************************)
Range(s) == {s[i] : i \in 1..Len(s)}

SeqsUpTo(S, n) == UNION {[1..k -> S] : k \in 0..n}

RECURSIVE Concat(_)
Concat(ss) == IF ss = <<>> THEN <<>> ELSE Head(ss) \o Concat(Tail(ss))

\* a value returned to the caller, or an exception propagating out of the call
Return(v) == [raised |-> FALSE, value |-> v]
Raise(e)  == [raised |-> TRUE, value |-> <<e>>]

(***************************************************************************)
(* ImportName (import_name.py is not part of the sources at hand; modelled *)
(* from the ModuleIdentity description): project + path segments, with     *)
(* url and raw_path derived from them.  A raw file name is                 *)
(* <<lean path root, segment, ..., suffix>>.                               *)
(***************************************************************************)
SELF_PROJECT == "."

LeanPathProject(root) ==
  CASE root = "src"          -> SELF_PROJECT
    [] root = "mathlib/src"  -> "mathlib"
    [] root = "lean/library" -> "core"
    [] OTHER                 -> "other"

ProjectRoot(project) ==
  CASE project = SELF_PROJECT -> "src"
    [] project = "mathlib"    -> "mathlib/src"
    [] project = "core"       -> "lean/library"
    [] OTHER                  -> "other/src"

ImportName_of(fname) ==
  [project |-> LeanPathProject(Head(fname)),
   parts   |-> SubSeq(fname, 2, Len(fname) - 1)]

RECURSIVE JoinSlash(_)
JoinSlash(parts) ==
  IF parts = <<>> THEN <<>>
  ELSE IF Len(parts) = 1 THEN <<parts[1]>>
  ELSE <<parts[1], "/">> \o JoinSlash(Tail(parts))

url(i_name) == JoinSlash(i_name.parts) \o <<".html">>

raw_path(i_name) == <<ProjectRoot(i_name.project)>> \o i_name.parts \o <<".lean">>

(***************************************************************************)
(* Python dict with insertion order: a sequence of [key, val] entries      *)
(***************************************************************************)
Keys(d) == {d[i].key : i \in 1..Len(d)}

\* d[k] of a defaultdict(list): the empty list for a key that is not there
Get(d, k) ==
  IF k \in Keys(d) THEN d[CHOOSE i \in 1..Len(d) : d[i].key = k].val ELSE <<>>

\* d[k] (touching the key of a defaultdict), d[k].append(v)
Touch(d, k) == IF k \in Keys(d) THEN d ELSE Append(d, [key |-> k, val |-> <<>>])

AppendTo(d, k, v) ==
  LET t == Touch(d, k)
  IN  [i \in 1..Len(t) |->
         IF t[i].key = k THEN [key |-> k, val |-> Append(t[i].val, v)] ELSE t[i]]

\* d[k] = v
Put(d, k, v) ==
  IF k \in Keys(d)
    THEN [i \in 1..Len(d) |-> IF d[i].key = k THEN [key |-> k, val |-> v] ELSE d[i]]
  ELSE Append(d, [key |-> k, val |-> v])

RECURSIVE PutAll(_, _, _)
PutAll(d, ks, v) == IF ks = <<>> THEN d ELSE PutAll(Put(d, Head(ks), v), Tail(ks), v)

(***************************************************************************)
(* Declarations.  constructors and structure_fields are lists of           *)
(* (name, type) pairs.                                                     *)
(***************************************************************************)
MK == ".mk"

SubNames(pairs) == {pairs[i][1] : i \in 1..Len(pairs)}

NameList(pairs) == [i \in 1..Len(pairs) |-> pairs[i][1]]

\* the keys one declaration writes into loc_map, in the order of the writes
\* (print_docs.py 96-102)
IntroducedList(obj) ==
  <<obj.name>> \o NameList(obj.constructors) \o NameList(obj.structure_fields)
    \o (IF Len(obj.structure_fields) > 0 THEN <<Append(obj.name, MK)>> ELSE <<>>)

Introduced(obj) == Range(IntroducedList(obj))

\* the symbol names a declaration carries itself: what name_in_decl matches
OwnNames(obj) ==
  {obj.name} \cup SubNames(obj.constructors) \cup SubNames(obj.structure_fields)

separate_results_step_nomk(st, obj) ==
  LET i_name == ImportName_of(obj.filename)
      o      == [obj EXCEPT !.filename = i_name]
      keys   == <<obj.name>> \o NameList(obj.constructors)
                  \o NameList(obj.structure_fields)
  IN  IF i_name.project = SELF_PROJECT THEN st
      ELSE [file_map |-> AppendTo(st.file_map, i_name, o),
            loc_map  |-> PutAll(st.loc_map, keys, i_name)]

\* d.setdefault(k, v) for every k
RECURSIVE PutNewAll(_, _, _)
PutNewAll(d, ks, v) ==
  IF ks = <<>> THEN d
  ELSE PutNewAll(IF Head(ks) \in Keys(d) THEN d ELSE Put(d, Head(ks), v), Tail(ks), v)

separate_results_step_first(st, obj) ==
  LET i_name == ImportName_of(obj.filename)
      o      == [obj EXCEPT !.filename = i_name]
  IN  IF i_name.project = SELF_PROJECT THEN st
      ELSE [file_map |-> AppendTo(st.file_map, i_name, o),
            loc_map  |-> PutNewAll(st.loc_map, IntroducedList(obj), i_name)]

separate_results_step_noskip(st, obj) ==
  LET i_name == ImportName_of(obj.filename)
      o      == [obj EXCEPT !.filename = i_name]
  IN  [file_map |-> AppendTo(st.file_map, i_name, o),
       loc_map  |-> PutAll(st.loc_map, IntroducedList(obj), i_name)]

\* one iteration of the loop of separate_results
separate_results_step(st, obj) ==
  LET i_name == ImportName_of(obj.filename)
      o      == [obj EXCEPT !.filename = i_name]
  IN  IF i_name.project = SELF_PROJECT THEN st
      ELSE [file_map |-> AppendTo(st.file_map, i_name, o),
            loc_map  |-> PutAll(st.loc_map, IntroducedList(obj), i_name)]

RECURSIVE separate_results_from(_, _)
separate_results_from(st, os) ==
  IF os = <<>> THEN st
  ELSE separate_results_from(separate_results_step(st, Head(os)), Tail(os))

separate_results(os) ==
  separate_results_from([file_map |-> <<>>, loc_map |-> <<>>], os)

\* print_docs.py 122-125: the loop over mod_docs
RECURSIVE touch_mod_docs(_, _)
touch_mod_docs(fm, names) ==
  IF names = <<>> THEN fm
  ELSE LET i_name == ImportName_of(Head(names))
       IN  touch_mod_docs(IF i_name.project = SELF_PROJECT THEN fm
                          ELSE Touch(fm, i_name),
                          Tail(names))

read_src_data(os, docs) ==
  LET sr == separate_results(os)
  IN  [file_map |-> touch_mod_docs(sr.file_map, docs), loc_map |-> sr.loc_map]

(***************************************************************************)
(* Source links and the redirect resolver                                  *)
(***************************************************************************)
SITE_ROOT == <<"/">>

\* every call in the model passes a line (line=None is used by templates only)
library_link(filename, line) ==
  LET roots == [core |-> <<"lean_root/">>, mathlib |-> <<"mathlib_root/">>]
  IN  IF filename.project \notin DOMAIN roots THEN <<>>
      ELSE roots[filename.project] \o JoinSlash(filename.parts) \o <<".lean">>
             \o <<"#L", ToString(line)>>

name_in_decl(decl_name, decl) ==
  \/ decl.name = decl_name
  \/ decl_name \in SubNames(decl.structure_fields)
  \/ decl_name \in SubNames(decl.constructors)

EndsWithMk(decl_name) == Len(decl_name) > 0 /\ decl_name[Len(decl_name)] = MK

\* the search without the '.mk' fallback
find_decl_no_fallback(decl_name, decl_loc, fm) ==
  LET decls == Get(fm, decl_loc)
      hits  == {i \in 1..Len(decls) : name_in_decl(decl_name, decls[i])}
  IN  IF hits # {}
        THEN Return(decls[CHOOSE i \in hits : \A j \in hits : i <= j])
      ELSE Raise("StopIteration")

\* the declaration next(...) picks, or the StopIteration it raises
RECURSIVE find_decl(_, _, _)
find_decl(decl_name, decl_loc, fm) ==
  LET decls == Get(fm, decl_loc)
      hits  == {i \in 1..Len(decls) : name_in_decl(decl_name, decls[i])}
  IN  IF hits # {}
        THEN Return(decls[CHOOSE i \in hits : \A j \in hits : i <= j])
      ELSE IF EndsWithMk(decl_name)
        THEN find_decl(SubSeq(decl_name, 1, Len(decl_name) - 1), decl_loc, fm)
      ELSE Raise("StopIteration")

library_link_from_decl_name(decl_name, decl_loc, fm) ==
  LET e == find_decl(decl_name, decl_loc, fm)
  IN  IF e.raised THEN e ELSE Return(library_link(decl_loc, e.value.line))

quote(s) == [i \in 1..Len(s) |-> IF s[i] = " " THEN "%20" ELSE s[i]]

write_docs_redirect(decl_name, decl_loc) ==
  SITE_ROOT \o url(decl_loc) \o <<"#">> \o quote(decl_name)

\* write_redirects on a platform other than win32: the files written, in the
\* order of loc_map, up to the first exception
RECURSIVE write_redirects_from(_, _, _, _)
write_redirects_from(i, lm, fm, written) ==
  IF i > Len(lm) THEN [written |-> written, result |-> Return(<<>>)]
  ELSE LET src == library_link_from_decl_name(lm[i].key, lm[i].val, fm)
           docs == write_docs_redirect(lm[i].key, lm[i].val)
       IN  IF src.raised
             THEN [written |-> Append(written, [name |-> lm[i].key, docs |-> docs,
                                                 src |-> <<>>, has_src |-> FALSE]),
                   result |-> src]
           ELSE write_redirects_from(i + 1, lm, fm,
                  Append(written, [name |-> lm[i].key, docs |-> docs,
                                   src |-> src.value, has_src |-> TRUE]))

write_redirects(lm, fm) == write_redirects_from(1, lm, fm, <<>>)

(***************************************************************************)
(* Kind derivation and the export index                                    *)
(***************************************************************************)
\* declarationKindsSource / declarationKindsDestination
\* (mathlib_data_structures.py is not part of the sources at hand)
SOURCE_THEOREM == "theorem"
SOURCE_CONST == "constant"
SOURCE_AXIOM == "axiom"
DEST_STRUCTURE == "structure"
DEST_INDUCTIVE == "inductive"
DEST_THEOREM == "theorem"
DEST_CONST == "const"
DEST_AXIOM == "axiom"

None == "None"

kind_of_decl_inductive_first(d) ==
  IF Len(d.constructors) > 0 THEN DEST_INDUCTIVE
  ELSE IF Len(d.structure_fields) > 0 THEN DEST_STRUCTURE
  ELSE IF d.kind = SOURCE_THEOREM THEN DEST_THEOREM
  ELSE IF d.kind = SOURCE_CONST THEN DEST_CONST
  ELSE IF d.kind = SOURCE_AXIOM THEN DEST_AXIOM
  ELSE None

\* falling off the end of the if/elif chain returns None
kind_of_decl(d) ==
  IF Len(d.structure_fields) > 0 THEN DEST_STRUCTURE
  ELSE IF Len(d.constructors) > 0 THEN DEST_INDUCTIVE
  ELSE IF d.kind = SOURCE_THEOREM THEN DEST_THEOREM
  ELSE IF d.kind = SOURCE_CONST THEN DEST_CONST
  ELSE IF d.kind = SOURCE_AXIOM THEN DEST_AXIOM
  ELSE None

mk_export_map_entry(name, filename, kind, is_meta, line) ==
  [filename  |-> raw_path(filename),
   kind      |-> kind,
   is_meta   |-> is_meta,
   line      |-> line,
   src_link  |-> library_link(filename, line),
   docs_link |-> SITE_ROOT \o url(filename) \o <<"#">> \o name]

\* print_docs.py 514-519 for one declaration (decl_header_html, the rendered
\* template, is left out of the entry)
RECURSIVE export_names(_, _, _)
export_names(db, names, obj) ==
  IF names = <<>> THEN db
  ELSE export_names(
         Put(db, Head(names),
             mk_export_map_entry(Head(names), obj.filename, obj.kind,
                                 obj.is_meta, obj.line)),
         Tail(names), obj)

export_decl(db, obj) ==
  export_names(db, <<obj.name>> \o NameList(obj.constructors)
                     \o NameList(obj.structure_fields), obj)

RECURSIVE export_decls(_, _)
export_decls(db, decls) ==
  IF decls = <<>> THEN db ELSE export_decls(export_decl(db, Head(decls)), Tail(decls))

RECURSIVE export_modules(_, _)
export_modules(db, fm) ==
  IF fm = <<>> THEN db ELSE export_modules(export_decls(db, Head(fm).val), Tail(fm))

mk_export_db(fm) == export_modules(<<>>, fm)

(***************************************************************************)
(* The input corpus                                                        *)
(***************************************************************************)
MaxObjs == 2

A == <<"a">>
B == <<"b">>
AMK == <<"a", MK>>

\* one module of mathlib, one of core, one of doc-gen itself
FILE_X == <<"mathlib/src", "x", ".lean">>
FILE_Y == <<"lean/library", "y", ".lean">>
FILE_Z == <<"src", "z", ".lean">>
Filenames == {FILE_X, FILE_Y, FILE_Z}

SourceKinds == {SOURCE_THEOREM, SOURCE_CONST, SOURCE_AXIOM, "definition"}

Lines == {1, 2}

DeclFields(names, files, kinds, metas, lines, cstrs, fields) ==
  [name : names, filename : files, kind : kinds, is_meta : metas, line : lines,
   constructors : cstrs, structure_fields : fields]

\* corpus of the index: plain declarations, a structure without and with its
\* constructor a.mk listed, a declaration named a.mk, an inductive type whose
\* constructor is named a.mk
IndexShapes ==
  { [name |-> A,   constructors |-> <<>>,               structure_fields |-> <<>>],
    [name |-> B,   constructors |-> <<>>,               structure_fields |-> <<>>],
    [name |-> A,   constructors |-> <<>>,               structure_fields |-> <<<<B, "ty">>>>],
    [name |-> A,   constructors |-> <<<<AMK, "ty">>>>,  structure_fields |-> <<<<B, "ty">>>>],
    [name |-> AMK, constructors |-> <<>>,               structure_fields |-> <<>>],
    [name |-> B,   constructors |-> <<<<AMK, "ty">>>>,  structure_fields |-> <<>>] }

IndexDecls ==
  UNION { DeclFields({sh.name}, Filenames, {SOURCE_CONST}, {FALSE}, Lines,
                     {sh.constructors}, {sh.structure_fields}) : sh \in IndexShapes }

ModDocsChoices == {<<>>, <<FILE_Z, FILE_Y>>}

NoValue == <<>>

Init ==
  /\ pc = "start"
  /\ objs \in SeqsUpTo(IndexDecls, MaxObjs)
  /\ mod_docs \in ModDocsChoices
  /\ file_map = <<>>
  /\ loc_map = <<>>
  /\ redirects = <<>>
  /\ export_db = <<>>
  /\ in_decl = NoValue
  /\ in_name = NoValue
  /\ in_text = NoValue
  /\ in_string = NoValue
  /\ result = NoValue

\* main(), print_docs.py 566
ReadSrcData ==
  /\ pc = "start"
  /\ LET r == read_src_data(objs, mod_docs)
     IN  /\ file_map' = r.file_map
         /\ loc_map' = r.loc_map
  /\ pc' = "read"
  /\ UNCHANGED <<objs, mod_docs, redirects, export_db, in_decl, in_name,
                 in_text, in_string, result>>

\* main(), print_docs.py 570; an exception ends the run
WriteRedirects ==
  /\ pc = "read"
  /\ LET w == write_redirects(loc_map, file_map)
     IN  /\ redirects' = w.written
         /\ result' = w.result
         /\ pc' = IF w.result.raised THEN "aborted" ELSE "redirected"
  /\ UNCHANGED <<objs, mod_docs, file_map, loc_map, export_db, in_decl, in_name,
                 in_text, in_string>>

\* main(), print_docs.py 572
MkExportDb ==
  /\ pc = "redirected"
  /\ export_db' = mk_export_db(file_map)
  /\ pc' = "exported"
  /\ UNCHANGED <<objs, mod_docs, file_map, loc_map, redirects, in_decl, in_name,
                 in_text, in_string, result>>

Next == ReadSrcData \/ WriteRedirects \/ MkExportDb

Spec == Init /\ [][Next]_vars

(***************************************************************************)
(* Properties of the index                                                 *)
(***************************************************************************)
Built == pc \in {"read", "redirected", "exported", "aborted"}

Module(obj) == ImportName_of(obj.filename)

Indexed(i) == Module(objs[i]).project # SELF_PROJECT

IndexedObjs == {i \in 1..Len(objs) : Indexed(i)}

\* the declaration as file_map holds it: filename replaced by the parsed one
Parsed(obj) == [obj EXCEPT !.filename = Module(obj)]

Decls(m) == Get(file_map, m)

DocModules == {ImportName_of(mod_docs[j]) : j \in 1..Len(mod_docs)}

\* the modules of file_map that hold a declaration carrying the name
Holders(name) ==
  {m \in Keys(file_map) : \E d \in Range(Decls(m)) : name \in OwnNames(d)}

LastIntroducing(k) ==
  CHOOSE i \in IndexedObjs :
    /\ k \in Introduced(objs[i])
    /\ \A j \in IndexedObjs : k \in Introduced(objs[j]) => j <= i

Resolve(name) == library_link_from_decl_name(name, Get(loc_map, name), file_map)

MkName(obj) == Append(obj.name, MK)

\* C2 as stated: for every declaration D with nonempty structure fields,
\* loc_map maps D.name + ".mk" to D's module and the redirect resolver gives
\* D.name + ".mk" the source line it gives D.name.
C2_Original ==
  Built =>
    \A i \in 1..Len(objs) :
      Len(objs[i].structure_fields) > 0 =>
        /\ MkName(objs[i]) \in Keys(loc_map)
        /\ objs[i].name \in Keys(loc_map)
        /\ Get(loc_map, MkName(objs[i])) = Module(objs[i])
        /\ ~Resolve(MkName(objs[i])).raised
        /\ Resolve(MkName(objs[i])) = Resolve(objs[i].name)

\* no other indexed declaration introduces D.name or D.name + ".mk"
SoleIntroducer(i) ==
  \A j \in IndexedObjs \ {i} :
    Introduced(objs[j]) \cap {objs[i].name, MkName(objs[i])} = {}

\* C2 (amended): for every declaration D outside doc-gen's own project with
\* nonempty structure fields, such that no other indexed declaration
\* introduces D.name or D.name + ".mk", loc_map maps D.name + ".mk" to D's
\* module and the redirect resolver gives D.name + ".mk" the source line
\* (D's line) it gives D.name.
C2_MkResolvesLikeName ==
  Built =>
    \A i \in IndexedObjs :
      (Len(objs[i].structure_fields) > 0 /\ SoleIntroducer(i)) =>
        /\ MkName(objs[i]) \in Keys(loc_map)
        /\ Get(loc_map, MkName(objs[i])) = Module(objs[i])
        /\ Get(loc_map, objs[i].name) = Module(objs[i])
        /\ Resolve(MkName(objs[i])) =
             Return(library_link(Module(objs[i]), objs[i].line))
        /\ Resolve(MkName(objs[i])) = Resolve(objs[i].name)

\* a structure that does not list its constructor, next to another declaration
\* of its module: a.mk resolves through the stripped name
C2_Witness ==
  /\ pc = "redirected"
  /\ \E i \in IndexedObjs :
       /\ Len(objs[i].structure_fields) > 0
       /\ SoleIntroducer(i)
       /\ MkName(objs[i]) \notin OwnNames(objs[i])
       /\ \E j \in IndexedObjs \ {i} : Module(objs[j]) = Module(objs[i])
       /\ \E r \in Range(redirects) :
            r.name = MkName(objs[i]) /\ r.has_src

\* C3 as stated: every key of loc_map appears (as a declaration name,
\* constructor name or field name) in the declaration list of exactly one
\* module of file_map.
C3_Original ==
  Built => \A k \in Keys(loc_map) : Cardinality(Holders(k)) = 1

\* C3 (amended): every key of loc_map is introduced, as its name, a
\* constructor name, a field name or the synthesized "<name>.mk" of a
\* structure, by a declaration in the list of the module loc_map gives it,
\* which is the module of the last indexed declaration introducing the key;
\* declarations of other modules that introduce the same name stay in
\* file_map.
C3_KeyIntroducedInItsModule ==
  Built =>
    \A k \in Keys(loc_map) :
      /\ \E i \in IndexedObjs : k \in Introduced(objs[i])
      /\ Get(loc_map, k) = Module(objs[LastIntroducing(k)])
      /\ \E d \in Range(Decls(Get(loc_map, k))) : k \in Introduced(d)
      /\ \A i \in IndexedObjs :
           k \in OwnNames(objs[i]) => Module(objs[i]) \in Holders(k)

\* one name declared in two modules
C3_Witness ==
  /\ Built
  /\ \E k \in Keys(loc_map) : Cardinality(Holders(k)) = 2

\* C10: the keys of file_map are exactly the modules outside doc-gen's own
\* project that own a declaration or have module documentation, a doc-only
\* module with an empty list; no key of file_map and no value of loc_map is in
\* project "."; a declaration of project "." is in no list and writes no
\* loc_map entry.
C10_SentinelExcluded ==
  Built =>
    /\ Keys(file_map) =
         {m \in {Module(objs[i]) : i \in 1..Len(objs)} \cup DocModules :
            m.project # SELF_PROJECT}
    /\ \A m \in Keys(file_map) :
         /\ m.project # SELF_PROJECT
         /\ Decls(m) = SelectSeq([i \in 1..Len(objs) |-> Parsed(objs[i])],
                                 LAMBDA d : d.filename = m)
    /\ \A i \in 1..Len(loc_map) : loc_map[i].val.project # SELF_PROJECT
    /\ Keys(loc_map) = UNION {Introduced(objs[i]) : i \in IndexedObjs}
    /\ \A k \in Keys(loc_map) : Get(loc_map, k) = Module(objs[LastIntroducing(k)])

\* a declaration of doc-gen itself whose names are not indexed, a documented
\* module of doc-gen itself, and a doc-only module with an empty list
C10_Witness ==
  /\ Built
  /\ \E i \in 1..Len(objs) : ~Indexed(i) /\ Introduced(objs[i]) \cap Keys(loc_map) = {}
  /\ \E m \in DocModules : m.project = SELF_PROJECT
  /\ \E m \in Keys(file_map) : Decls(m) = <<>>
  /\ \E m \in Keys(file_map) : Decls(m) # <<>>

(***************************************************************************)
(* The export index                                                        *)
(***************************************************************************)
\* corpus of the export index: a plain declaration, a structure and an
\* inductive type, of every source kind
ExportShapes ==
  { [name |-> A, constructors |-> <<>>,              structure_fields |-> <<>>],
    [name |-> A, constructors |-> <<>>,              structure_fields |-> <<<<B, "ty">>>>],
    [name |-> B, constructors |-> <<<<AMK, "ty">>>>, structure_fields |-> <<>>] }

ExportDecls ==
  UNION { DeclFields({sh.name}, {FILE_X, FILE_Y},
                     {SOURCE_THEOREM, SOURCE_CONST, "definition"}, BOOLEAN, Lines,
                     {sh.constructors}, {sh.structure_fields}) : sh \in ExportShapes }

InitExport ==
  /\ pc = "start"
  /\ objs \in SeqsUpTo(ExportDecls, MaxObjs)
  /\ mod_docs = <<>>
  /\ file_map = <<>>
  /\ loc_map = <<>>
  /\ redirects = <<>>
  /\ export_db = <<>>
  /\ in_decl = NoValue
  /\ in_name = NoValue
  /\ in_text = NoValue
  /\ in_string = NoValue
  /\ result = NoValue

SpecExport == InitExport /\ [][Next]_vars

\* the declarations of file_map that carry the symbol name
Carriers(S) ==
  {<<m, i>> \in Keys(file_map) \X (1..MaxObjs + 1) :
     i <= Len(Decls(m)) /\ S \in OwnNames(Decls(m)[i])}

\* C7 as stated: for every declaration D of file_map and every symbol name S it
\* introduces (S introduced by D alone), export_db[S] carries the raw path of
\* D's module, D's meta flag, D's line, the docs link url#S and, as kind, the
\* derived kind of D.
C7_Original ==
  pc = "exported" =>
    \A m \in Keys(file_map) : \A d \in Range(Decls(m)) : \A S \in OwnNames(d) :
      Cardinality(Carriers(S)) = 1 =>
        /\ S \in Keys(export_db)
        /\ Get(export_db, S).filename = raw_path(m)
        /\ Get(export_db, S).is_meta = d.is_meta
        /\ Get(export_db, S).line = d.line
        /\ Get(export_db, S).docs_link = SITE_ROOT \o url(m) \o <<"#">> \o S
        /\ Get(export_db, S).kind = kind_of_decl(d)

(***************************************************************************)
(* Kind derivation on its own                                              *)
(***************************************************************************)
KindDecls ==
  DeclFields({A, B}, {FILE_X}, SourceKinds, BOOLEAN, Lines,
             {<<>>, <<<<AMK, "ty">>>>}, {<<>>, <<<<B, "ty">>>>})

InitKind ==
  /\ pc = "kind"
  /\ in_decl \in KindDecls
  /\ objs = <<>>
  /\ mod_docs = <<>>
  /\ file_map = <<>>
  /\ loc_map = <<>>
  /\ redirects = <<>>
  /\ export_db = <<>>
  /\ in_name = NoValue
  /\ in_text = NoValue
  /\ in_string = NoValue
  /\ result = NoValue

\* a call kind_of_decl(decl); no statement of the function raises
KindOfDecl ==
  /\ pc = "kind"
  /\ result' = Return(kind_of_decl(in_decl))
  /\ pc' = "kind_done"
  /\ UNCHANGED <<objs, mod_docs, file_map, loc_map, redirects, export_db,
                 in_decl, in_name, in_text, in_string>>

NextKind == KindOfDecl

SpecKind == InitKind /\ [][NextKind]_vars

HasFields == Len(in_decl.structure_fields) > 0
HasConstructors == Len(in_decl.constructors) > 0

\* C8: kind_of_decl returns 'structure' for nonempty structure fields; else
\* 'inductive' for nonempty constructors; else 'theorem', 'const' or 'axiom'
\* for the source kind tags theorem, constant, axiom.
C8_KindPriority ==
  pc = "kind_done" =>
    /\ ~result.raised
    /\ HasFields => result.value = DEST_STRUCTURE
    /\ (~HasFields /\ HasConstructors) => result.value = DEST_INDUCTIVE
    /\ (~HasFields /\ ~HasConstructors /\ in_decl.kind = SOURCE_THEOREM)
         => result.value = DEST_THEOREM
    /\ (~HasFields /\ ~HasConstructors /\ in_decl.kind = SOURCE_CONST)
         => result.value = DEST_CONST
    /\ (~HasFields /\ ~HasConstructors /\ in_decl.kind = SOURCE_AXIOM)
         => result.value = DEST_AXIOM

\* an axiom with constructors and structure fields comes out as a structure
C8_Witness ==
  /\ pc = "kind_done"
  /\ HasFields /\ HasConstructors /\ in_decl.kind = SOURCE_AXIOM
  /\ result = Return(DEST_STRUCTURE)

\* C9 as stated: on a declaration with no structure fields, no constructors and
\* a source kind tag that is none of theorem, constant, axiom, kind_of_decl
\* raises and returns nothing to its caller.
C9_Original ==
  (/\ pc = "kind_done"
   /\ ~HasFields /\ ~HasConstructors
   /\ in_decl.kind \notin {SOURCE_THEOREM, SOURCE_CONST, SOURCE_AXIOM})
  => result.raised

(***************************************************************************)
(* The site tree                                                           *)
(***************************************************************************)
\* the code points of the names used for projects and path segments
CodePoints(name) ==
  CASE name = "B"       -> <<66>>
    [] name = "a"       -> <<97>>
    [] name = "ab"      -> <<97, 98>>
    [] name = "b"       -> <<98>>
    [] name = "core"    -> <<99, 111, 114, 101>>
    [] name = "mathlib" -> <<109, 97, 116, 104, 108, 105, 98>>

\* Python's < on str: lexicographic on code points, a proper prefix first
RECURSIVE SeqLess(_, _)
SeqLess(x, y) ==
  IF y = <<>> THEN FALSE
  ELSE IF x = <<>> THEN TRUE
  ELSE IF Head(x) # Head(y) THEN Head(x) < Head(y)
  ELSE SeqLess(Tail(x), Tail(y))

StrLess(a, b) == SeqLess(CodePoints(a), CodePoints(b))

\* sorted(...) of a list of str
sorted(names) == SortSeq(names, StrLess)

\* the elements of a set as a list, in some order
RECURSIVE SetToSeq(_)
SetToSeq(S) ==
  IF S = {} THEN <<>>
  ELSE LET x == CHOOSE y \in S : TRUE IN <<x>> \o SetToSeq(S \ {x})

\* line 174: sorted(set(dirname for dirname, *rest in filenames if rest != []))
dirnames(filenames) ==
  sorted(SetToSeq({Head(fn) : fn \in {g \in Range(filenames) : Tail(g) # <<>>}}))

\* line 183: sorted(filename for filename, *rest in filenames if rest == [])
leafnames(filenames) ==
  LET leaves == SelectSeq(filenames, LAMBDA fn : Tail(fn) = <<>>)
  IN  sorted([i \in 1..Len(leaves) |-> Head(leaves[i])])

subtree_filenames_all(filenames, dirname) ==
  LET sub == SelectSeq(filenames, LAMBDA fn : Tail(fn) # <<>>)
  IN  [i \in 1..Len(sub) |-> Tail(sub[i])]

\* line 180: [rest for dn, *rest in filenames if rest != [] and dn == dirname]
subtree_filenames(filenames, dirname) ==
  LET sub == SelectSeq(filenames, LAMBDA fn : Tail(fn) # <<>> /\ Head(fn) = dirname)
  IN  [i \in 1..Len(sub) |-> Tail(sub[i])]

RECURSIVE mk_site_tree_core(_, _)
mk_site_tree_core(filenames, path) ==
  LET dirs   == dirnames(filenames)
      leaves == leafnames(filenames)
  IN  [i \in 1..Len(dirs) |->
         [kind     |-> IF path = <<>> THEN "project" ELSE "dir",
          name     |-> dirs[i],
          path     |-> JoinSlash(Tail(path \o <<dirs[i]>>)),
          children |-> mk_site_tree_core(subtree_filenames(filenames, dirs[i]),
                                         path \o <<dirs[i]>>)]]
      \o
      [i \in 1..Len(leaves) |->
         [kind |-> "file",
          name |-> leaves[i],
          path |-> JoinSlash(Tail(path \o <<leaves[i]>>)) \o <<".html">>]]

mk_site_tree(fm) ==
  mk_site_tree_core([i \in 1..Len(fm) |-> <<fm[i].key.project>> \o fm[i].key.parts],
                    <<>>)

MaxModules == 3

TreeParts ==
  { <<"a">>, <<"b">>, <<"B">>, <<"ab">>, <<"a", "a">>, <<"a", "b">>,
    <<"ab", "a">>, <<"a", "a", "b">> }

TreeModules == [project : {"core", "mathlib"}, parts : TreeParts]

\* file_map after read_src_data, for every set of modules in every order
InitTree ==
  /\ pc = "tree"
  /\ \E keys \in SeqsUpTo(TreeModules, MaxModules) :
       /\ \A i, j \in 1..Len(keys) : i # j => keys[i] # keys[j]
       /\ file_map = [i \in 1..Len(keys) |-> [key |-> keys[i], val |-> <<>>]]
  /\ objs = <<>>
  /\ mod_docs = <<>>
  /\ loc_map = <<>>
  /\ redirects = <<>>
  /\ export_db = <<>>
  /\ in_decl = NoValue
  /\ in_name = NoValue
  /\ in_text = NoValue
  /\ in_string = NoValue
  /\ result = NoValue

\* setup_jinja_env, print_docs.py 321
MkSiteTree ==
  /\ pc = "tree"
  /\ result' = Return(mk_site_tree(file_map))
  /\ pc' = "tree_done"
  /\ UNCHANGED <<objs, mod_docs, file_map, loc_map, redirects, export_db,
                 in_decl, in_name, in_text, in_string>>

NextTree == MkSiteTree

SpecTree == InitTree /\ [][NextTree]_vars

\* the chains of node names from the nodes of a level down to the file leaves,
\* through nodes of the given kind at this level and "dir" nodes below
RECURSIVE Flatten(_, _)
Flatten(entries, dirkind) ==
  UNION { IF entries[i].kind = "file" THEN {<<entries[i].name>>}
          ELSE IF entries[i].kind = dirkind
            THEN {<<entries[i].name>> \o c : c \in Flatten(entries[i].children, "dir")}
          ELSE {} : i \in 1..Len(entries) }

RECURSIVE CountLeaves(_)
CountLeaves(entries) ==
  IF entries = <<>> THEN 0
  ELSE (IF Head(entries).kind = "file" THEN 1 ELSE CountLeaves(Head(entries).children))
       + CountLeaves(Tail(entries))

\* at this level and below: directories in ascending order, then files in
\* ascending order
RECURSIVE Ordered(_)
Ordered(entries) ==
  /\ \A i \in 1..Len(entries) - 1 :
       /\ entries[i].kind = "file" => entries[i + 1].kind = "file"
       /\ (entries[i].kind = "file") = (entries[i + 1].kind = "file")
            => SeqLess(CodePoints(entries[i].name), CodePoints(entries[i + 1].name))
  /\ \A i \in 1..Len(entries) :
       entries[i].kind # "file" => Ordered(entries[i].children)

\* C4: flattening the tree gives back exactly the (project, segments) paths of
\* the modules, each once; at every level directories and files are each in
\* ascending order of name, files after directories.
C4_SiteTreeRoundTrip ==
  pc = "tree_done" =>
    /\ {[project |-> Head(c), parts |-> Tail(c)] : c \in Flatten(result.value, "project")}
         = Keys(file_map)
    /\ CountLeaves(result.value) = Cardinality(Keys(file_map))
    /\ Ordered(result.value)

\* a project with a directory "a" beside a file "a" and a file "B" that
\* sorts before it
C4_Witness ==
  /\ pc = "tree_done"
  /\ \E t \in Range(result.value) :
       /\ Len(t.children) = 3
       /\ t.children[1].kind = "dir" /\ t.children[1].name = "a"
       /\ t.children[2].kind = "file" /\ t.children[2].name = "B"
       /\ t.children[3].kind = "file" /\ t.children[3].name = "a"

(***************************************************************************)
(* The linkers                                                             *)
(***************************************************************************)
linkify_core_swapped(decl_name, text, lm) ==
  IF decl_name \in Keys(lm)
    THEN <<"<a href=\"">> \o SITE_ROOT \o url(Get(lm, decl_name)) \o <<"#">>
           \o decl_name \o <<"\"">>
           \o (IF text = decl_name THEN <<" title=\"">> \o decl_name \o <<"\"">>
               ELSE <<>>)
           \o <<">">> \o text \o <<"</a>">>
  ELSE IF text # decl_name
    THEN <<"<span title=\"">> \o decl_name \o <<"\">">> \o text \o <<"</span>">>
  ELSE text

linkify_core(decl_name, text, lm) ==
  IF decl_name \in Keys(lm)
    THEN <<"<a href=\"">> \o SITE_ROOT \o url(Get(lm, decl_name)) \o <<"#">>
           \o decl_name \o <<"\"">>
           \o (IF text # decl_name THEN <<" title=\"">> \o decl_name \o <<"\"">>
               ELSE <<>>)
           \o <<">">> \o text \o <<"</a>">>
  ELSE IF text # decl_name
    THEN <<"<span title=\"">> \o decl_name \o <<"\">">> \o text \o <<"</span>">>
  ELSE text

MOD_X == [project |-> "mathlib", parts |-> <<"x">>]
MOD_Y == [project |-> "core", parts |-> <<"d", "y">>]

AA == <<"a", "a">>

LinkLocMaps ==
  { <<>>,
    <<[key |-> A, val |-> MOD_X]>>,
    <<[key |-> A, val |-> MOD_X], [key |-> AA, val |-> MOD_Y]>> }

MaxNameLen == 2

CoreStrings == SeqsUpTo({"a", "b", "."}, MaxNameLen)

InitCore ==
  /\ pc = "core"
  /\ in_name \in CoreStrings
  /\ in_text \in CoreStrings
  /\ loc_map \in LinkLocMaps
  /\ objs = <<>>
  /\ mod_docs = <<>>
  /\ file_map = <<>>
  /\ redirects = <<>>
  /\ export_db = <<>>
  /\ in_decl = NoValue
  /\ in_string = NoValue
  /\ result = NoValue

\* a call linkify_core(decl_name, text, loc_map)
LinkifyCore ==
  /\ pc = "core"
  /\ result' = Return(linkify_core(in_name, in_text, loc_map))
  /\ pc' = "core_done"
  /\ UNCHANGED <<objs, mod_docs, file_map, loc_map, redirects, export_db,
                 in_decl, in_name, in_text, in_string>>

NextCore == LinkifyCore

SpecCore == InitCore /\ [][NextCore]_vars

Href(name) == SITE_ROOT \o url(Get(loc_map, name)) \o <<"#">> \o name

\* C1: linkify_core returns a link to SITE_ROOT + url + '#' + name around the
\* text, with title = name exactly when the text differs from the name, if
\* the name is a key of loc_map; otherwise a span with title = name around
\* the text if the text differs from the name; otherwise the text unchanged.
C1_LinkifyCoreCases ==
  pc = "core_done" =>
    /\ ~result.raised
    /\ (in_name \in Keys(loc_map) /\ in_text = in_name) =>
         result.value = <<"<a href=\"">> \o Href(in_name) \o <<"\"", ">">>
                          \o in_text \o <<"</a>">>
    /\ (in_name \in Keys(loc_map) /\ in_text # in_name) =>
         result.value = <<"<a href=\"">> \o Href(in_name) \o <<"\"", " title=\"">>
                          \o in_name \o <<"\"", ">">> \o in_text \o <<"</a>">>
    /\ (in_name \notin Keys(loc_map) /\ in_text # in_name) =>
         result.value = <<"<span title=\"">> \o in_name \o <<"\">">>
                          \o in_text \o <<"</span>">>
    /\ (in_name \notin Keys(loc_map) /\ in_text = in_name) =>
         result.value = in_text

\* a known name shown under another text: a link with a tooltip
C1_Witness ==
  /\ pc = "core_done"
  /\ in_name = AA /\ in_name \in Keys(loc_map) /\ in_text = A
  /\ result.value = <<"<a href=\"", "/", "d", "/", "y", ".html", "#", "a", "a", "\"",
                      " title=\"", "a", "a", "\"", ">", "a", "</a>">>

(***************************************************************************)
(* linkify_efmt.  The three marker characters U+E000, U+E001 and U+E002   *)
(* are the symbols NAME_START, NAME_END and TEXT_END.                      *)
(***************************************************************************)
NAME_START == "\\ue000"
NAME_END == "\\ue001"
TEXT_END == "\\ue002"

\* \s of the regular expressions
Spaces == {" ", "\n", "\t"}

IsSpace(c) == c \in Spaces

\* f.replace('\n', ' ')
replace_newlines(str) == [i \in 1..Len(str) |-> IF str[i] = "\n" THEN " " ELSE str[i]]

\* the least index >= from whose symbol is in S, Len(str) + 1 if none
First(str, from, S) ==
  LET hits == {k \in from..Len(str) : str[k] \in S}
  IN  IF hits = {} THEN Len(str) + 1 ELSE CHOOSE k \in hits : \A l \in hits : k <= l

\* the least index >= from whose symbol is not in S, Len(str) + 1 if none
FirstNot(str, from, S) ==
  LET hits == {k \in from..Len(str) : str[k] \notin S}
  IN  IF hits = {} THEN Len(str) + 1 ELSE CHOOSE k \in hits : \A l \in hits : k <= l

\* the number of trailing \s symbols of str
RECURSIVE TrailingSpaces(_)
TrailingSpaces(str) ==
  IF str = <<>> \/ ~IsSpace(str[Len(str)]) THEN 0
  ELSE 1 + TrailingSpaces(SubSeq(str, 1, Len(str) - 1))

\* The match of  NAME_START (.+?) NAME_END (\s*)(.*?)(\s*) TEXT_END  at
\* position i, where str[i] is NAME_START: the lazy name ends at the first
\* NAME_END from i + 2 on, the first \s* takes every space, the lazy text
\* ends before the spaces that precede the first TEXT_END after that; '.'
\* does not match a newline.
marked_match(str, i) ==
  LET j  == First(str, i + 2, {NAME_END})
      p  == FirstNot(str, j + 1, Spaces)
      q  == First(str, p, {TEXT_END})
      mid == SubSeq(str, p, q - 1)
      t  == Len(mid) - TrailingSpaces(mid)
  IN  [found |-> /\ j <= Len(str) /\ q <= Len(str)
                 /\ "\n" \notin Range(SubSeq(str, i + 1, j - 1))
                 /\ "\n" \notin Range(SubSeq(mid, 1, t)),
       name  |-> SubSeq(str, i + 1, j - 1),
       ws1   |-> SubSeq(str, j + 1, p - 1),
       text  |-> SubSeq(mid, 1, t),
       ws2   |-> SubSeq(mid, t + 1, Len(mid)),
       next  |-> q + 1]

\* line 236: match[1] + linkify_core(match[0], match[2], loc_map) + match[3]
marked_span(m, lm) == m.ws1 \o linkify_core(m.name, m.text, lm) \o m.ws2

\* re.findall from position i on, joined: a marked span, a run of symbols
\* other than NAME_START, or a NAME_START that starts no span and is skipped
RECURSIVE linkify_linked_from(_, _, _)
linkify_linked_from(str, i, lm) ==
  IF i > Len(str) THEN <<>>
  ELSE IF str[i] # NAME_START
    THEN LET e == First(str, i, {NAME_START})
         IN  SubSeq(str, i, e - 1) \o linkify_linked_from(str, e, lm)
  ELSE LET m == marked_match(str, i)
       IN  IF m.found THEN marked_span(m, lm) \o linkify_linked_from(str, m.next, lm)
           ELSE linkify_linked_from(str, i + 1, lm)

linkify_linked(str, lm) == linkify_linked_from(str, 1, lm)

\* an efmt object: a str, ['n', f], ['c', f, g], or anything else
RECURSIVE go(_, _)
go(f, lm) ==
  IF f.shape = "str" THEN Return(linkify_linked(replace_newlines(f.s), lm))
  ELSE IF f.shape = "n"
    THEN LET r == go(f.f1, lm)
         IN  IF r.raised THEN r
             ELSE Return(<<"<span class=\"fn\">">> \o r.value \o <<"</span>">>)
  ELSE IF f.shape = "c"
    THEN LET r1 == go(f.f1, lm)
             r2 == go(f.f2, lm)
         IN  IF r1.raised THEN r1 ELSE IF r2.raised THEN r2
             ELSE Return(r1.value \o r2.value)
  ELSE Raise("unknown efmt object")

linkify_efmt(f, lm) == go([shape |-> "n", f1 |-> f], lm)

MaxEfmtLen == 5

EfmtSymbols == {NAME_START, NAME_END, TEXT_END, "a", " ", "\n"}

Str(str) == [shape |-> "str", s |-> str]

EfmtLeaves == {Str(str) : str \in SeqsUpTo(EfmtSymbols, 1)} \cup {[shape |-> "x"]}

EfmtObjects ==
  {Str(str) : str \in SeqsUpTo(EfmtSymbols, MaxEfmtLen)}
    \cup {[shape |-> "n", f1 |-> g] : g \in EfmtLeaves}
    \cup {[shape |-> "c", f1 |-> g, f2 |-> h] : g \in EfmtLeaves, h \in EfmtLeaves}
    \cup {[shape |-> "x"]}

InitEfmt ==
  /\ pc = "efmt"
  /\ in_string \in EfmtObjects
  /\ loc_map \in LinkLocMaps
  /\ objs = <<>>
  /\ mod_docs = <<>>
  /\ file_map = <<>>
  /\ redirects = <<>>
  /\ export_db = <<>>
  /\ in_decl = NoValue
  /\ in_name = NoValue
  /\ in_text = NoValue
  /\ result = NoValue

\* the filter linkify_efmt, print_docs.py 337
LinkifyEfmt ==
  /\ pc = "efmt"
  /\ result' = linkify_efmt(in_string, loc_map)
  /\ pc' = "efmt_done"
  /\ UNCHANGED <<objs, mod_docs, file_map, loc_map, redirects, export_db,
                 in_decl, in_name, in_text, in_string>>

NextEfmt == LinkifyEfmt

SpecEfmt == InitEfmt /\ [][NextEfmt]_vars

IsMarker(c) == c \in {NAME_START, NAME_END, TEXT_END}

Plain(str) == \A k \in 1..Len(str) : ~IsMarker(str[k])

LeadingSpaces(str) == FirstNot(str, 1, {" ", "\n", "\t"}) - 1

Fn(str) == <<"<span class=\"fn\">">> \o str \o <<"</span>">>

\* The plain-text run in_string.s, read as unmarked text, one marked span
\* (name at i+1..j-1, display text at j+1..q-1, the spaces around the display
\* text staying outside the link) and unmarked text; the display text given
\* by Display(name, text).
OneSpanResult(i, j, q, Display(_, _)) ==
  LET str  == replace_newlines(in_string.s)
      name == SubSeq(str, i + 1, j - 1)
      disp == SubSeq(str, j + 1, q - 1)
      lead == LeadingSpaces(disp)
      keep == Len(disp) - TrailingSpaces(disp)
      text == SubSeq(disp, lead + 1, keep)
  IN  Fn(SubSeq(str, 1, i - 1)
         \o (IF lead = Len(disp) THEN disp \o linkify_core(name, Display(name, <<>>), loc_map)
             ELSE SubSeq(disp, 1, lead) \o linkify_core(name, Display(name, text), loc_map)
                    \o SubSeq(disp, keep + 1, Len(disp)))
         \o SubSeq(str, q + 1, Len(str)))

\* in_string.s is unmarked text, one marked span with a name free of spaces,
\* unmarked text
OneSpan(i, j, q) ==
  LET str == in_string.s
  IN  /\ i + 1 < j /\ j < q
      /\ str[i] = NAME_START /\ str[j] = NAME_END /\ str[q] = TEXT_END
      /\ \A k \in 1..Len(str) : k \notin {i, j, q} => ~IsMarker(str[k])
      /\ \A k \in i + 1..j - 1 : ~IsSpace(str[k])

\* C5 as stated: a marked span is replaced in place by linkify_core(name,
\* display text), the display text being the name when the captured display
\* text is empty; unmarked text passes through in order, newlines replaced by
\* spaces.
C5_Original ==
  (pc = "efmt_done" /\ in_string.shape = "str") =>
    /\ Plain(in_string.s) => result = Return(Fn(replace_newlines(in_string.s)))
    /\ \A i, j, q \in 1..Len(in_string.s) :
         OneSpan(i, j, q) =>
           result = Return(OneSpanResult(i, j, q,
                      LAMBDA name, text : IF text = <<>> THEN name ELSE text))

\* What the code does: the same with the captured display text passed on as it
\* is, the empty one too.
C5_AsCoded ==
  (pc = "efmt_done" /\ in_string.shape = "str") =>
    /\ Plain(in_string.s) => result = Return(Fn(replace_newlines(in_string.s)))
    /\ \A i, j, q \in 1..Len(in_string.s) :
         OneSpan(i, j, q) =>
           result = Return(OneSpanResult(i, j, q, LAMBDA name, text : text))

(***************************************************************************)
(* linkify_markdown.  The tags the regular expressions name, and one other *)
(* tag, are symbols.                                                       *)
(***************************************************************************)
CODE_OPEN == "<code>"
CODE_CLOSE == "</code>"
NAME_SPAN_OPEN == "<span class=\"n\">"
SPAN_CLOSE == "</span>"
KEYWORD_SPAN_OPEN == "<span class=\"k\">"

\* the symbols that contain the character '<'
LtSymbols ==
  {CODE_OPEN, CODE_CLOSE, NAME_SPAN_OPEN, SPAN_CLOSE, KEYWORD_SPAN_OPEN,
   "<a href=\"", "</a>", "<span title=\"", "<span class=\"fn\">", "<"}

HasLt(c) == c \in LtSymbols

\* [\s\[\]\(\)\{\}]
IsDelimiter(c) == IsSpace(c) \/ c \in {"[", "]", "(", ")", "{", "}"}

\* re.split(r'([\s\[\]\(\)\{\}])', string): tokens and delimiters in turn,
\* acc being the token read so far
RECURSIVE re_split_from(_, _)
re_split_from(str, acc) ==
  IF str = <<>> THEN <<acc>>
  ELSE IF IsDelimiter(Head(str))
    THEN <<acc, <<Head(str)>>>> \o re_split_from(Tail(str), <<>>)
  ELSE re_split_from(Tail(str), Append(acc, Head(str)))

re_split(str) == re_split_from(str, <<>>)

linkify_type(str, lm) ==
  LET splitstr == re_split(str)
  IN  Concat([k \in 1..Len(splitstr) |-> linkify_core(splitstr[k], splitstr[k], lm)])

\* re.sub(open + '([^<]+)' + close, ...) from position i on
RECURSIVE re_sub_from(_, _, _, _, _)
re_sub_from(str, i, open, close, lm) ==
  IF i > Len(str) THEN <<>>
  ELSE LET e == First(str, i + 1, LtSymbols)
       IN  IF str[i] = open /\ e > i + 1 /\ e <= Len(str) /\ str[e] = close
             THEN <<open>> \o linkify_type(SubSeq(str, i + 1, e - 1), lm) \o <<close>>
                    \o re_sub_from(str, e + 1, open, close, lm)
           ELSE <<str[i]>> \o re_sub_from(str, i + 1, open, close, lm)

linkify_markdown_code_only(str, lm) == re_sub_from(str, 1, CODE_OPEN, CODE_CLOSE, lm)

linkify_markdown(str, lm) ==
  re_sub_from(re_sub_from(str, 1, CODE_OPEN, CODE_CLOSE, lm),
              1, NAME_SPAN_OPEN, SPAN_CLOSE, lm)

MaxMarkdownLen == 5

MarkdownSymbols ==
  {CODE_OPEN, CODE_CLOSE, NAME_SPAN_OPEN, SPAN_CLOSE, KEYWORD_SPAN_OPEN, "a", " ", "("}

MarkdownLocMap == <<[key |-> A, val |-> MOD_X]>>

InitMarkdown ==
  /\ pc = "markdown"
  /\ in_string \in SeqsUpTo(MarkdownSymbols, MaxMarkdownLen)
  /\ loc_map = MarkdownLocMap
  /\ objs = <<>>
  /\ mod_docs = <<>>
  /\ file_map = <<>>
  /\ redirects = <<>>
  /\ export_db = <<>>
  /\ in_decl = NoValue
  /\ in_name = NoValue
  /\ in_text = NoValue
  /\ result = NoValue

\* the second half of the filter convert_markdown, print_docs.py 338
LinkifyMarkdown ==
  /\ pc = "markdown"
  /\ result' = Return(linkify_markdown(in_string, loc_map))
  /\ pc' = "markdown_done"
  /\ UNCHANGED <<objs, mod_docs, file_map, loc_map, redirects, export_db,
                 in_decl, in_name, in_text, in_string>>

NextMarkdown == LinkifyMarkdown

SpecMarkdown == InitMarkdown /\ [][NextMarkdown]_vars

Closes(open, close) ==
  \/ open = "<code>" /\ close = "</code>"
  \/ open = "<span class=\"n\">" /\ close = "</span>"

SpanTags == {"<code>", "</code>", "<span class=\"n\">", "</span>"}

Delimiters == {" ", "\n", "\t", "[", "]", "(", ")", "{", "}"}

\* what the claim has for a token: a link for a key of loc_map, else the token
TokenOut(tok) ==
  IF tok \in Keys(loc_map)
    THEN <<"<a href=\"">> \o Href(tok) \o <<"\"", ">">> \o tok \o <<"</a>">>
  ELSE tok

\* The output the claim describes, given the symbols that end a token (Stop)
\* and which positions lie in the text of a span (InText): symbols outside
\* are kept, delimiters inside are kept, and each token inside is put out,
\* linked, at its first symbol.
LinkedText(InText(_), Stop) ==
  LET str == in_string
      piece(k) ==
        IF ~InText(k) \/ str[k] \in Delimiters THEN <<str[k]>>
        ELSE IF InText(k - 1) /\ str[k - 1] \notin Delimiters THEN <<>>
        ELSE TokenOut(SubSeq(str, k, First(str, k, Stop) - 1))
  IN  Concat([k \in 1..Len(str) |-> piece(k)])

\* position k lies in a <code> span or name-styled span that holds no other
\* <code> or name-styled tag
InSpan(k) ==
  k \in 1..Len(in_string) /\
  \E i \in 1..k - 1 : \E e \in k + 1..Len(in_string) :
    /\ Closes(in_string[i], in_string[e])
    /\ \A l \in i + 1..e - 1 : in_string[l] \notin SpanTags

\* position k lies in a <code> span or name-styled span that holds no '<'
InPlainSpan(k) ==
  k \in 1..Len(in_string) /\
  \E i \in 1..k - 1 : \E e \in k + 1..Len(in_string) :
    /\ Closes(in_string[i], in_string[e])
    /\ \A l \in i + 1..e - 1 : ~HasLt(in_string[l])

\* C6 as stated: in the text of any <code> span or name-styled span every
\* delimiter is kept and every other token is replaced by linkify_core(token,
\* token); the text outside such spans is unchanged.
C6_Original ==
  pc = "markdown_done" =>
    result = Return(LinkedText(InSpan, Delimiters \cup SpanTags))

\* C6 (amended): in the text of any <code> span or name-styled span whose
\* content is nonempty and holds no '<' (no nested markup), every delimiter is
\* kept and every other token is replaced by linkify_core(token, token); a
\* span whose content holds a '<', and all text outside the spans, is
\* unchanged.
C6_PlainSpansLinked ==
  pc = "markdown_done" =>
    result = Return(LinkedText(InPlainSpan, Delimiters \cup LtSymbols))

\* a known name outside a span stays, in a name-styled span it is linked and
\* the bracket after it is kept
C6_Witness ==
  /\ pc = "markdown_done"
  /\ in_string = <<"a", "<span class=\"n\">", "a", "(", "</span>">>
  /\ result.value = <<"a", "<span class=\"n\">", "<a href=\"", "/", "x", ".html", "#",
                      "a", "\"", ">", "a", "</a>", "(", "</span>">>

(***************************************************************************)
(* trace_deps.  A path is written like a raw file name: <<lean path root,  *)
(* segment, ..., suffix>>, the suffix being absent for a name without one. *)
(* The output of `lean --deps` is the list of its whitespace-separated     *)
(* tokens; it names files, so every token has a nonempty final name.       *)
(***************************************************************************)
PathSuffixes == {".lean", ".olean", ".txt"}

\* Path(p).with_suffix(suffix): the last suffix replaced, or added to a name
\* that has none
with_suffix(p, suffix) ==
  IF p[Len(p)] \in PathSuffixes
    THEN SubSeq(p, 1, Len(p) - 1) \o <<suffix>>
  ELSE p \o <<suffix>>

\* line 149: {k.raw_path: k for k in file_map}
RECURSIVE import_name_by_path_from(_, _, _)
import_name_by_path_from(i, fm, d) ==
  IF i > Len(fm) THEN d
  ELSE import_name_by_path_from(i + 1, fm, Put(d, raw_path(fm[i].key), fm[i].key))

import_name_by_path(fm) == import_name_by_path_from(1, fm, <<>>)

\* nx.DiGraph(): the nodes in the order they were added, and the edge set
EmptyGraph == [nodes |-> <<>>, edges |-> {}]

add_node(graph, k) ==
  IF k \in Range(graph.nodes) THEN graph
  ELSE [graph EXCEPT !.nodes = Append(@, k)]

add_edge(graph, u, v) ==
  [add_node(add_node(graph, u), v) EXCEPT !.edges = @ \cup {<<u, v>>}]

\* the inner loop without the normalisation of the suffix
trace_deps_token_as_given(st, k, p, by_path) ==
  IF p \in Keys(by_path)
    THEN [st EXCEPT !.n = @ + 1,
                    !.graph = add_edge(@, k, Get(by_path, p)),
                    !.n_ok = @ + 1]
  ELSE [st EXCEPT !.n = @ + 1, !.printed = Append(@, p)]

\* lines 155-163: one pass of the inner loop, for the token p of module k.
\* st.printed is the list of "Path does not end in 'lean'" diagnostics.
trace_deps_token(st, k, p, by_path) ==
  LET q == with_suffix(p, ".lean")
  IN  IF q \in Keys(by_path)
        THEN [st EXCEPT !.n = @ + 1,
                        !.graph = add_edge(@, k, Get(by_path, q)),
                        !.n_ok = @ + 1]
      ELSE [st EXCEPT !.n = @ + 1, !.printed = Append(@, p)]

RECURSIVE trace_deps_tokens(_, _, _, _)
trace_deps_tokens(st, k, ps, by_path) ==
  IF ps = <<>> THEN st
  ELSE trace_deps_tokens(trace_deps_token(st, k, Head(ps), by_path), k, Tail(ps), by_path)

\* lines 152-163: the outer loop over file_map, deps being what
\* `lean --deps` prints for each raw path
RECURSIVE trace_deps_from(_, _, _, _, _)
trace_deps_from(i, fm, deps, by_path, st) ==
  IF i > Len(fm) THEN st
  ELSE LET k  == fm[i].key
           s1 == [st EXCEPT !.graph = add_node(@, k)]
       IN  trace_deps_from(i + 1, fm, deps, by_path,
                           trace_deps_tokens(s1, k, deps[raw_path(k)], by_path))

trace_deps(fm, deps) ==
  trace_deps_from(1, fm, deps, import_name_by_path(fm),
                  [graph |-> EmptyGraph, n |-> 0, n_ok |-> 0, printed |-> <<>>])

FILE_W == <<"mathlib/src", "d", "w", ".lean">>
FILE_EXT == <<"other/src", "e", ".lean">>

DepFiles == {FILE_X, FILE_Y, FILE_Z, FILE_W}

DepModules == {ImportName_of(f) : f \in DepFiles}

olean(f) == with_suffix(f, ".olean")

bare(f) == SubSeq(f, 1, Len(f) - 1)

\* what `lean --deps` may print for one module: nothing; two known modules;
\* a module named twice and an external file; a name without a suffix, an
\* external file and a name with another suffix; the module itself
DepOutputs ==
  { <<>>,
    <<olean(FILE_X), olean(FILE_Y)>>,
    <<olean(FILE_X), FILE_X, olean(FILE_EXT)>>,
    <<bare(FILE_W), FILE_EXT, with_suffix(FILE_Z, ".txt")>>,
    <<olean(FILE_W), olean(FILE_Z), bare(FILE_EXT)>> }

\* file_map with any of the modules in any order, and the dependency lists
InitDeps ==
  /\ pc = "deps"
  /\ \E keys \in SeqsUpTo(DepModules, MaxModules) :
       /\ \A i, j \in 1..Len(keys) : i # j => keys[i] # keys[j]
       /\ file_map = [i \in 1..Len(keys) |-> [key |-> keys[i], val |-> <<>>]]
  /\ in_text \in [{raw_path(m) : m \in DepModules} -> DepOutputs]
  /\ objs = <<>>
  /\ mod_docs = <<>>
  /\ loc_map = <<>>
  /\ redirects = <<>>
  /\ export_db = <<>>
  /\ in_decl = NoValue
  /\ in_name = NoValue
  /\ in_string = NoValue
  /\ result = NoValue

\* setup_jinja_env, print_docs.py 320
TraceDeps ==
  /\ pc = "deps"
  /\ result' = Return(trace_deps(file_map, in_text))
  /\ pc' = "deps_done"
  /\ UNCHANGED <<objs, mod_docs, file_map, loc_map, redirects, export_db,
                 in_decl, in_name, in_text, in_string>>

NextDeps == TraceDeps

SpecDeps == InitDeps /\ [][NextDeps]_vars

\* the known modules, in the order they are processed
Known == {file_map[i].key : i \in 1..Len(file_map)}

\* file_map with its keys in another order
Reordered(f) == [i \in 1..Len(file_map) |-> file_map[f[i]]]

Orders ==
  {f \in [1..Len(file_map) -> 1..Len(file_map)] :
     \A i, j \in 1..Len(file_map) : i # j => f[i] # f[j]}

\* the tokens of a module's dependency list that name a known module
Resolvable(a) ==
  {i \in 1..Len(in_text[raw_path(a)]) :
     \E b \in Known : raw_path(b) = with_suffix(in_text[raw_path(a)][i], ".lean")}

RECURSIVE Sum(_, _)
Sum(f, S) ==
  IF S = {} THEN 0 ELSE LET x == CHOOSE x \in S : TRUE IN f[x] + Sum(f, S \ {x})

\* C11: trace_deps returns without aborting, with one node per known module
\* and no other node, an edge A -> B exactly when B is a known module whose
\* raw path is a path of A's dependency list with its suffix made '.lean',
\* and counters with attempted = resolved + dropped; the graph and the
\* counters are the same for every order of the known modules.
C11_DependencyGraph ==
  pc = "deps_done" =>
    LET r == result.value IN
    /\ ~result.raised
    /\ Range(r.graph.nodes) = Known
    /\ Len(r.graph.nodes) = Cardinality(Known)
    /\ r.graph.edges =
         {e \in Known \X Known :
            \E i \in 1..Len(in_text[raw_path(e[1])]) :
              with_suffix(in_text[raw_path(e[1])][i], ".lean") = raw_path(e[2])}
    /\ r.n = Sum([a \in Known |-> Len(in_text[raw_path(a)])], Known)
    /\ r.n_ok = Sum([a \in Known |-> Cardinality(Resolvable(a))], Known)
    /\ r.n = r.n_ok + Len(r.printed)
    /\ \A f \in Orders :
         LET o == trace_deps(Reordered(f), in_text) IN
         /\ Range(o.graph.nodes) = Range(r.graph.nodes)
         /\ o.graph.edges = r.graph.edges
         /\ o.n = r.n /\ o.n_ok = r.n_ok
         /\ Len(o.printed) = Len(r.printed)

\* three modules, processed with the importing module first: an edge to a
\* module named by its .olean file, an edge to a module named without a
\* suffix, a module that imports itself, and dropped external files
C11_Witness ==
  /\ pc = "deps_done"
  /\ Len(file_map) = 3
  /\ file_map[1].key = ImportName_of(FILE_W)
  /\ <<ImportName_of(FILE_W), ImportName_of(FILE_X)>> \in result.value.graph.edges
  /\ <<ImportName_of(FILE_X), ImportName_of(FILE_W)>> \in result.value.graph.edges
  /\ <<ImportName_of(FILE_W), ImportName_of(FILE_W)>> \notin result.value.graph.edges
  /\ \E m \in Known : <<m, m>> \in result.value.graph.edges
  /\ result.value.n_ok >= 3
  /\ Len(result.value.printed) >= 2

(***************************************************************************)
(* The redirect resolver over the index: a corpus of names that end in     *)
(* '.mk', literally or by synthesis, and of names introduced twice         *)
(***************************************************************************)
AMKMK == <<"a", MK, MK>>

RedirectShapes ==
  { [name |-> A,      constructors |-> <<>>,                structure_fields |-> <<>>],
    [name |-> AMK,    constructors |-> <<>>,                structure_fields |-> <<>>],
    [name |-> <<MK>>, constructors |-> <<>>,                structure_fields |-> <<>>],
    [name |-> A,      constructors |-> <<>>,                structure_fields |-> <<<<B, "ty">>>>],
    [name |-> AMK,    constructors |-> <<>>,                structure_fields |-> <<<<A, "ty">>>>],
    [name |-> B,      constructors |-> <<>>,                structure_fields |-> <<<<AMK, "ty">>>>],
    [name |-> B,      constructors |-> <<<<AMK, "ty">>>>,   structure_fields |-> <<>>],
    [name |-> A,      constructors |-> <<<<AMKMK, "ty">>>>, structure_fields |-> <<>>] }

RedirectDecls ==
  UNION { DeclFields({sh.name}, Filenames, {SOURCE_CONST}, {FALSE}, {1},
                     {sh.constructors}, {sh.structure_fields}) : sh \in RedirectShapes }

InitRedirect ==
  /\ pc = "start"
  /\ objs \in SeqsUpTo(RedirectDecls, MaxObjs)
  /\ mod_docs \in ModDocsChoices
  /\ file_map = <<>>
  /\ loc_map = <<>>
  /\ redirects = <<>>
  /\ export_db = <<>>
  /\ in_decl = NoValue
  /\ in_name = NoValue
  /\ in_text = NoValue
  /\ in_string = NoValue
  /\ result = NoValue

SpecRedirect == InitRedirect /\ [][Next]_vars

\* decl_name and what is left of it after stripping trailing '.mk' suffixes
RECURSIVE Stripped(_)
Stripped(decl_name) ==
  {decl_name} \cup
    (IF EndsWithMk(decl_name) THEN Stripped(SubSeq(decl_name, 1, Len(decl_name) - 1))
     ELSE {})

\* the key has no declaration in its module that names it as it stands
NeedsFallback(i) ==
  \A d \in Range(Get(file_map, loc_map[i].val)) : ~name_in_decl(loc_map[i].key, d)

\* C12: for every key S of loc_map the resolver finds a declaration of
\* file_map[loc_map[S]] that matches S as it stands or after stripping
\* trailing '.mk' suffixes, so write_redirects writes a source redirect for
\* every key and never raises.
C12_ResolverTotal ==
  /\ pc # "aborted"
  /\ Built =>
       \A i \in 1..Len(loc_map) :
         LET e == find_decl(loc_map[i].key, loc_map[i].val, file_map) IN
         /\ ~e.raised
         /\ e.value \in Range(Get(file_map, loc_map[i].val))
         /\ \E t \in Stripped(loc_map[i].key) : name_in_decl(t, e.value)
         /\ ~library_link_from_decl_name(loc_map[i].key, loc_map[i].val, file_map).raised
  /\ pc \in {"redirected", "exported"} =>
       /\ Len(redirects) = Len(loc_map)
       /\ \A i \in 1..Len(redirects) :
            redirects[i].name = loc_map[i].key /\ redirects[i].has_src

\* the redirects are written for an index where a.mk is a declaration of one
\* module and taken over by a declaration of another, and where a key is
\* resolved only by the fallback
C12_Witness ==
  /\ pc = "redirected"
  /\ ~result.raised
  /\ Len(objs) = 2 /\ objs[1].filename # objs[2].filename
  /\ FILE_Z \notin {objs[1].filename, objs[2].filename}
  /\ \E n \in Introduced(objs[1]) \cap Introduced(objs[2]) : EndsWithMk(n)
  /\ \E i \in 1..Len(loc_map) : EndsWithMk(loc_map[i].key) /\ NeedsFallback(i)

====
